---- MODULE Spec2Model ----
(***************************************************************************)
(* SnackTracker: the in-memory store (MemStorage) and the HTTP handlers    *)
(* that operate on users, canteens, menu items, orders, order items and    *)
(* order ratings.                                                          *)
(*                                                                         *)
(* The specifications share the store and the handlers: Spec (the order    *)
(* lifecycle), SpecShop (reorders and reads against a changing menu),      *)
(* SpecAccounts (registration and the role gates), SpecCatalog (the routes *)
(* that write menu items and canteens), SpecKitchen (orders whose menu     *)
(* items are deleted) and SpecBooks (the staff's inventory, expenses and   *)
(* sales reports).  In these every handler is one action: requests are     *)
(* handled one at a time, each to its response.                            *)
(*                                                                         *)
(* SpecStatusRace and SpecCheckout split handlers at their awaits, so that *)
(* the steps of several requests interleave; a handler between two steps   *)
(* is held in the variable inflight.                                       *)
(*                                                                         *)
(* Each action that answers a request records the request and the HTTP     *)
(* status code of its response in the variable last.                       *)
(***************************************************************************)
EXTENDS Integers, Sequences, FiniteSets, TLC

VARIABLES
    users,                \* MemStorage.users:        id -> User
    canteens,             \* MemStorage.canteens:     id -> Canteen
    menuItems,            \* MemStorage.menuItems:    id -> MenuItem
    orders,               \* MemStorage.orders:       id -> Order
    orderItems,           \* MemStorage.orderItems:   id -> OrderItem
    orderRatings,         \* MemStorage.orderRatings: id -> OrderRating
    userIdCounter,
    canteenIdCounter,
    menuItemIdCounter,
    orderIdCounter,
    orderItemIdCounter,
    orderRatingIdCounter,
    now,                  \* the clock createOrder reads with new Date()
    last,                 \* the last request and its response
    inventoryItems,       \* MemStorage.inventoryItems: id -> InventoryItem
    expenses,             \* MemStorage.expenses:       id -> Expense
    salesReports,         \* MemStorage.salesReports:   id -> SalesReport
    inventoryIdCounter,
    expenseIdCounter,
    salesReportIdCounter,
    inflight              \* the handlers suspended at an await, each with
                          \* what it has read so far

\* the stores of the staff's bookkeeping, and the suspended handlers
bookVars == <<inventoryItems, expenses, salesReports, inventoryIdCounter,
              expenseIdCounter, salesReportIdCounter>>

sideVars == <<bookVars, inflight>>

vars == <<users, canteens, menuItems, orders, orderItems, orderRatings,
          userIdCounter, canteenIdCounter, menuItemIdCounter, orderIdCounter,
          orderItemIdCounter, orderRatingIdCounter, now, last, sideVars>>

storeVars == <<users, canteens, menuItems, orders, orderItems, orderRatings,
               userIdCounter, canteenIdCounter, menuItemIdCounter,
               orderIdCounter, orderItemIdCounter, orderRatingIdCounter, now,
               sideVars>>

(***************************************************************************)
(* Bounds of the exploration.                                              *)
(***************************************************************************)
MaxOrders  == 1     \* orders ever created
MaxRatings == 2     \* ratings ever created
MaxShopOrders == 2  \* orders ever created, checkouts and reorders together,
                    \* where reorders and menu changes are explored
MaxNewMenuItems == 1    \* menu items created after construction
MaxNewCanteens  == 1    \* canteens created after construction
MaxInventoryItems == 2  \* inventory items ever created
MaxBookEntries == 1     \* expenses ever recorded, and sales reports
MaxInflight == 2        \* handlers suspended at an await at the same time

(***************************************************************************)
(* Values.                                                                 *)
(***************************************************************************)
Absent   == "absent"      \* a field the request body does not carry (undefined)
NoActor  == 0             \* req.isAuthenticated() is false
NoCanteen == 0            \* canteenId: null

Statuses == {"received", "preparing", "ready", "completed", "cancelled"}

\* HTTP status codes of the responses.
OK            == 200
Created       == 201
BadRequest    == 400
Unauthorized  == 401
Forbidden     == 403
NotFound      == 404
ServerError   == 500
NoContent     == 204

(***************************************************************************)
(* The state the constructor leaves behind.                                *)
(***************************************************************************)
\* prices of the 48 menu items created by initializeDefaultCanteens, by id
DefaultMenuPrices ==
    << 40, 35, 45, 30, 50, 40, 55, 70, 65, 55, 70, 90,
       65, 75, 100, 15, 40, 35, 25, 20, 25, 30, 20, 40,
       100, 130, 90, 120, 35, 45, 40, 20, 25, 50,
       60, 55, 80, 90, 50, 65, 45, 70, 75, 60, 65, 80, 30, 20 >>

\* ids 1..24 belong to Food Court, 25..34 to KUTEERA, 35..48 to Wake n Bite
DefaultMenuCanteen(id) == IF id <= 24 THEN 1 ELSE IF id <= 34 THEN 2 ELSE 3

DefaultMenuItems ==
    [id \in 1..Len(DefaultMenuPrices) |->
        [id |-> id, price |-> DefaultMenuPrices[id], isAvailable |-> TRUE,
         canteenId |-> DefaultMenuCanteen(id)]]

DefaultCanteens == [id \in 1..3 |-> [id |-> id, isActive |-> TRUE]]

DefaultUsers ==
    (1 :> [id |-> 1, username |-> "ansh@gmail.com", role |-> "admin",
           isAdmin |-> TRUE, canteenId |-> NoCanteen]) @@
    (2 :> [id |-> 2, username |-> "test@gmail.com", role |-> "staff",
           isAdmin |-> FALSE, canteenId |-> 1]) @@
    (3 :> [id |-> 3, username |-> "kuteera@gmail.com", role |-> "staff",
           isAdmin |-> FALSE, canteenId |-> 2]) @@
    (4 :> [id |-> 4, username |-> "wake@gmail.com", role |-> "staff",
           isAdmin |-> FALSE, canteenId |-> 3])

\* last: the last request and the status code of its response.  A request
\* that a guard of its handler turned down (400, 401, 403, 404) wrote nothing
\* and is recorded by operation and code only; any other request is recorded
\* with its session, the :id it named (for a creation, the id assigned) and
\* the status, rating or lines of its body.  For a read, result holds the
\* ids of the orders of the response body, in the order of the body.
NoRequest == [op |-> "none", actor |-> NoActor, target |-> 0,
              status |-> Absent, rating |-> 0, lines |-> <<>>, code |-> 0,
              result |-> <<>>]

Init ==
    /\ users = DefaultUsers
    /\ canteens = DefaultCanteens
    /\ menuItems = DefaultMenuItems
    /\ orders = <<>>
    /\ orderItems = <<>>
    /\ orderRatings = <<>>
    /\ userIdCounter = 5
    /\ canteenIdCounter = 4
    /\ menuItemIdCounter = Len(DefaultMenuPrices) + 1
    /\ orderIdCounter = 1
    /\ orderItemIdCounter = 1
    /\ orderRatingIdCounter = 1
    /\ now = 0
    /\ last = NoRequest
    /\ inventoryItems = <<>>
    /\ expenses = <<>>
    /\ salesReports = <<>>
    /\ inventoryIdCounter = 1
    /\ expenseIdCounter = 1
    /\ salesReportIdCounter = 1
    /\ inflight = {}

(***************************************************************************)
(* Request inputs.                                                         *)
(***************************************************************************)
\* the session of a request: nobody, or any stored user (passport
\* deserializes req.user from storage.getUser on every request)
Actors == {NoActor} \cup (DOMAIN users \ {2, 4})

\* the sessions checkout requests are explored with: nobody, or a customer
\* (the handler asks for a session only, not for a role)
Customers == {u \in DOMAIN users : users[u].role = "customer"}
CheckoutActors == {NoActor} \cup Customers

\* ids a request can name in :id; ids not yet assigned name no order
OrderIds == 1..MaxOrders

\* status strings a request body can carry, an unknown one included
StatusInputs == Statuses \cup {"bogus"}

\* rating values a request body can carry
RatingInputs == {-1, 0, 5, 6}

\* comments a request body can carry
CommentInputs == {Absent}

\* a menu item id that the store does not hold
MissingMenuItem == Len(DefaultMenuPrices) + 51

\* one line of the items array of a POST /api/orders body
Line(m, q, p) == [menuItemId |-> m, quantity |-> q, price |-> p]

Carts ==
    { <<>>,
      << Line(1, 2, 40), Line(25, 1, 100) >>,
      << Line(MissingMenuItem, 1, 10) >> }

\* the totalAmount field of a POST /api/orders body (stored as sent)
TotalInputs == {80}

\* the bodies of POST /api/orders: with an items array, or with no items
\* field at all
OrderBodies ==
    { [totalAmount |-> t, hasItems |-> TRUE, items |-> c] :
          t \in TotalInputs, c \in Carts }
    \cup { [totalAmount |-> t, hasItems |-> FALSE, items |-> <<>>] :
              t \in TotalInputs }

TurnedDown(code) == code \in {BadRequest, Unauthorized, Forbidden, NotFound}

Respond(op, actor, target, status, rating, lines, code) ==
    last' = IF TurnedDown(code)
            THEN [NoRequest EXCEPT !.op = op, !.code = code]
            ELSE [op |-> op, actor |-> actor, target |-> target,
                  status |-> status, rating |-> rating, lines |-> lines,
                  code |-> code, result |-> <<>>]

\* the response of a read
RespondWith(op, actor, result, code) ==
    last' = IF TurnedDown(code)
            THEN [NoRequest EXCEPT !.op = op, !.code = code]
            ELSE [NoRequest EXCEPT !.op = op, !.actor = actor, !.code = code,
                                   !.result = result]

(***************************************************************************)
(* MemStorage: the storage methods, as functions of the maps they touch.   *)
(***************************************************************************)
\* getOrder: the order, or undefined
HasOrder(os, id) == id \in DOMAIN os

\* createOrder: status falls back to "received" when the data carries none
createOrder(os, id, orderData, createdAt) ==
    os @@ (id :> [id |-> id,
                  userId |-> orderData.userId,
                  status |-> IF orderData.status = Absent THEN "received"
                             ELSE orderData.status,
                  totalAmount |-> orderData.totalAmount,
                  createdAt |-> createdAt])

\* updateOrderStatus throws when the order is missing or the status unknown
updateOrderStatusThrows(os, id, statusValue) ==
    \/ id \notin DOMAIN os
    \/ statusValue \notin Statuses

\* updateOrderStatus: replaces the status field of the stored order,
\* whatever the current status is
updateOrderStatusMutant(os, id, statusValue) ==
    IF updateOrderStatusThrows(os, id, statusValue) THEN os
    ELSE [os EXCEPT ![id].status = statusValue, ![id].createdAt = now]

updateOrderStatus(os, id, statusValue) ==
    IF updateOrderStatusThrows(os, id, statusValue) THEN os
    ELSE [os EXCEPT ![id].status = statusValue]

\* createOrderItem: stores the data under a fresh id
createOrderItemMutant(ois, id, orderItemData) ==
    ois @@ (id :> [id |-> id,
                   orderId |-> orderItemData.orderId,
                   menuItemId |-> orderItemData.menuItemId,
                   quantity |-> 1,
                   price |-> orderItemData.price])

createOrderItem(ois, id, orderItemData) ==
    ois @@ (id :> [id |-> id,
                   orderId |-> orderItemData.orderId,
                   menuItemId |-> orderItemData.menuItemId,
                   quantity |-> orderItemData.quantity,
                   price |-> orderItemData.price])

\* getOrderItems: ids of the order items of an order
getOrderItems(ois, orderId) == {i \in DOMAIN ois : ois[i].orderId = orderId}

\* getOrderWithItems throws when an item of the order references a menu
\* item that is not stored
getOrderWithItemsThrows(ois, mis, orderId) ==
    \E i \in getOrderItems(ois, orderId) : ois[i].menuItemId \notin DOMAIN mis

\* getOrderWithItems(...).items: the items of the order in the order the map
\* holds them (insertion order, that is by id), as lines
RECURSIVE itemsInOrder(_, _)
itemsInOrder(ois, ids) ==
    IF ids = {} THEN <<>>
    ELSE LET i == CHOOSE x \in ids : \A y \in ids : x <= y
         IN  <<[menuItemId |-> ois[i].menuItemId,
                quantity |-> ois[i].quantity,
                price |-> ois[i].price]>>
             \o itemsInOrder(ois, ids \ {i})

getOrderWithItems(ois, orderId) == itemsInOrder(ois, getOrderItems(ois, orderId))

\* getActiveOrderForUser: the first order of the map that is the user's and
\* received, preparing or ready; as a list of at most one order id
ActiveStatuses == {"received", "preparing", "ready"}

getActiveOrderForUserMutant(os, userId) ==
    LET mine == {o \in DOMAIN os : /\ os[o].userId = userId
                                   /\ os[o].status \in ActiveStatuses}
    IN  IF mine = {} THEN <<>>
        ELSE << CHOOSE x \in mine : \A y \in mine : x >= y >>

getActiveOrderForUser(os, userId) ==
    LET mine == {o \in DOMAIN os : /\ os[o].userId = userId
                                   /\ os[o].status \in ActiveStatuses}
    IN  IF mine = {} THEN <<>>
        ELSE << CHOOSE x \in mine : \A y \in mine : x <= y >>

\* sort((a, b) => b.createdAt - a.createdAt): newest first; the sort is
\* stable, orders created at the same instant keep the order of the map
RECURSIVE newestFirst(_, _)
newestFirst(os, ids) ==
    IF ids = {} THEN <<>>
    ELSE LET x == CHOOSE a \in ids : \A b \in ids :
                      \/ os[a].createdAt > os[b].createdAt
                      \/ os[a].createdAt = os[b].createdAt /\ a <= b
         IN  <<x>> \o newestFirst(os, ids \ {x})

\* getOrderHistoryForUser: the user's completed orders, newest first
getOrderHistoryForUserMutant(os, userId) ==
    newestFirst(os, {o \in DOMAIN os : os[o].status = "completed"})

getOrderHistoryForUser(os, userId) ==
    newestFirst(os, {o \in DOMAIN os : /\ os[o].userId = userId
                                       /\ os[o].status = "completed"})

\* sort((a, b) => a.createdAt - b.createdAt): oldest first, stable
RECURSIVE oldestFirst(_, _)
oldestFirst(os, ids) ==
    IF ids = {} THEN <<>>
    ELSE LET x == CHOOSE a \in ids : \A b \in ids :
                      \/ os[a].createdAt < os[b].createdAt
                      \/ os[a].createdAt = os[b].createdAt /\ a <= b
         IN  <<x>> \o oldestFirst(os, ids \ {x})

\* the orders of a list whose items have a menu item of the canteen
RECURSIVE ofCanteen(_, _, _, _)
ofCanteen(list, ois, mis, canteenId) ==
    IF list = <<>> THEN <<>>
    ELSE (IF \E i \in getOrderItems(ois, Head(list)) :
                 mis[ois[i].menuItemId].canteenId = canteenId
          THEN <<Head(list)>> ELSE <<>>)
         \o ofCanteen(Tail(list), ois, mis, canteenId)

\* getActiveOrders: every received, preparing or ready order, oldest first,
\* each loaded with getOrderWithItems
getActiveOrders(os) ==
    oldestFirst(os, {o \in DOMAIN os : os[o].status \in ActiveStatuses})

\* getOrderHistory: every completed order, newest first, each loaded with
\* getOrderWithItems
getOrderHistory(os) ==
    newestFirst(os, {o \in DOMAIN os : os[o].status = "completed"})

\* Promise.all over getOrderWithItems rejects when one of them throws
listThrowsMutant(ois, mis, list) == FALSE

listThrows(ois, mis, list) ==
    \E k \in 1..Len(list) : getOrderWithItemsThrows(ois, mis, list[k])

\* getActiveOrdersByCanteen, getOrderHistoryByCanteen: the whole listing is
\* loaded first, then filtered
getActiveOrdersByCanteen(os, ois, mis, canteenId) ==
    ofCanteen(getActiveOrders(os), ois, mis, canteenId)

getOrderHistoryByCanteen(os, ois, mis, canteenId) ==
    ofCanteen(getOrderHistory(os), ois, mis, canteenId)

\* a request body or insert data as a record of the fields it carries
Has(data, field) == field \in DOMAIN data

\* { ...a, ...b }: the fields of b replace or extend those of a
Spread(a, b) ==
    [f \in DOMAIN a \cup DOMAIN b |-> IF f \in DOMAIN b THEN b[f] ELSE a[f]]

\* createMenuItem: isAvailable ?? true, canteenId || 1
createMenuItem(mis, id, menuItemData) ==
    mis @@ (id :> [id |-> id,
                   price |-> menuItemData.price,
                   isAvailable |-> IF Has(menuItemData, "isAvailable")
                                   THEN menuItemData.isAvailable ELSE TRUE,
                   canteenId |-> IF Has(menuItemData, "canteenId")
                                 THEN (IF menuItemData.canteenId = 0 THEN 1
                                       ELSE menuItemData.canteenId)
                                 ELSE 1])

\* updateMenuItem: { ...menuItem, ...data }, the fields the data carries
\* replace the stored ones
updateMenuItem(mis, id, data) ==
    [mis EXCEPT ![id] = Spread(mis[id], data)]

\* deleteMenuItem: removes the key, nothing else
deleteMenuItem(mis, id) == [m \in DOMAIN mis \ {id} |-> mis[m]]

\* deleteAllMenuItems: clears the map
deleteAllMenuItems(mis) == <<>>

\* createCanteen: isActive ?? true
createCanteen(cs, id, canteenData) ==
    cs @@ (id :> [id |-> id,
                  isActive |-> IF Has(canteenData, "isActive")
                               THEN canteenData.isActive ELSE TRUE])

\* updateCanteen: { ...canteen, ...data }
updateCanteen(cs, id, data) ==
    [cs EXCEPT ![id] = Spread(cs[id], data)]

\* deleteCanteen: removes the key, nothing else; the menu items and the
\* users of the canteen stay as they are
deleteCanteen(cs, id) == [c \in DOMAIN cs \ {id} |-> cs[c]]

\* createInventoryItem: { id, ...itemData, quantity ?? 0, reorderLevel ?? 10 }
\* (lastUpdated, which nothing reads, is left out)
DefaultReorderLevel == 10

createInventoryItem(inv, id, itemData) ==
    inv @@ (id :> Spread(Spread([id |-> id], itemData),
                         [quantity |-> IF Has(itemData, "quantity")
                                       THEN itemData.quantity ELSE 0,
                          reorderLevel |-> IF Has(itemData, "reorderLevel")
                                           THEN itemData.reorderLevel
                                           ELSE DefaultReorderLevel]))

\* updateInventoryItem: { ...item, ...data, lastUpdated }
updateInventoryItem(inv, id, data) ==
    [inv EXCEPT ![id] = Spread(inv[id], data)]

\* getLowStockItems: the items of the canteen with quantity <= reorderLevel,
\* in the order of the map
RECURSIVE inMapOrder(_)
inMapOrder(ids) ==
    IF ids = {} THEN <<>>
    ELSE LET i == CHOOSE x \in ids : \A y \in ids : x <= y
         IN  <<i>> \o inMapOrder(ids \ {i})

getLowStockItemsMutant(inv, canteenId) ==
    inMapOrder({i \in DOMAIN inv : /\ inv[i].canteenId = canteenId
                                   /\ inv[i].quantity < inv[i].reorderLevel})

getLowStockItems(inv, canteenId) ==
    inMapOrder({i \in DOMAIN inv : /\ inv[i].canteenId = canteenId
                                   /\ inv[i].quantity <= inv[i].reorderLevel})

\* createExpense, createSalesReport: { id, ...data } (the dates and the
\* cashSales and onlineSales defaults, which nothing reads, are left out)
createExpense(es, id, expenseData) ==
    es @@ (id :> Spread([id |-> id], expenseData))

createSalesReport(rs, id, reportData) ==
    rs @@ (id :> Spread([id |-> id], reportData))

\* getOrderRating: ids of the stored ratings of an order (find returns the
\* first of them)
getOrderRatings(rs, orderId) == {r \in DOMAIN rs : rs[r].orderId = orderId}

\* createOrderRating: stores the data under a fresh id, no uniqueness check
\* (the rating's createdAt, which nothing reads, is left out)
createOrderRating(rs, id, ratingData) ==
    rs @@ (id :> [id |-> id,
                  orderId |-> ratingData.orderId,
                  userId |-> ratingData.userId,
                  rating |-> ratingData.rating,
                  comment |-> ratingData.comment])

\* getUserByUsername compares lower-cased names
ToLowerCase(name) == IF name = "Alice" THEN "alice" ELSE name

getUserByUsername(us, username) ==
    {u \in DOMAIN us : ToLowerCase(us[u].username) = ToLowerCase(username)}

\* createUser: role, isAdmin and canteenId come from the data when it
\* carries them, and default to customer / false / null
createUser(us, id, userData) ==
    us @@ (id :> [id |-> id,
                  username |-> userData.username,
                  role |-> IF userData.role = Absent THEN "customer"
                           ELSE userData.role,
                  isAdmin |-> userData.isAdmin,
                  canteenId |-> userData.canteenId])

(***************************************************************************)
(* Middleware.  A gate answers Pass (next() is called) or a status code.   *)
(***************************************************************************)
Pass == 0

\* requireRole(role): 401 without a session, 403 unless the actor has the
\* role or is an admin
requireRole(us, actor, role) ==
    IF actor = NoActor THEN Unauthorized
    ELSE IF us[actor].role # role /\ us[actor].role # "admin" THEN Forbidden
    ELSE Pass

\* isAdmin: 401 without a session, 403 unless the actor's isAdmin flag is set
isAdmin(us, actor) ==
    IF actor = NoActor THEN Unauthorized
    ELSE IF ~us[actor].isAdmin THEN Forbidden
    ELSE Pass

(***************************************************************************)
(* POST /api/register                                                      *)
(***************************************************************************)
\* request bodies of the registrations explored with the order handlers
RegisterBodies ==
    { [username |-> "alice", role |-> Absent, isAdmin |-> FALSE,
       canteenId |-> NoCanteen] }

Register(body) ==
    IF getUserByUsername(users, body.username) # {}
    THEN /\ Respond("register", NoActor, 0, Absent, 0, <<>>, BadRequest)
         /\ UNCHANGED storeVars
    ELSE /\ users' = createUser(users, userIdCounter, body)
         /\ userIdCounter' = userIdCounter + 1
         /\ Respond("register", NoActor, userIdCounter, Absent, 0, <<>>, Created)
         /\ UNCHANGED <<sideVars, canteens, menuItems, orders, orderItems, orderRatings,
                        canteenIdCounter, menuItemIdCounter, orderIdCounter,
                        orderItemIdCounter, orderRatingIdCounter, now>>

(***************************************************************************)
(* POST /api/orders                                                        *)
(***************************************************************************)
\* the loop over req.body.items: one createOrderItem per line, in order
RECURSIVE addOrderItems(_, _, _, _)
addOrderItems(ois, ctr, orderId, lines) ==
    IF lines = <<>> THEN ois
    ELSE addOrderItems(
             createOrderItem(ois, ctr,
                 [orderId |-> orderId,
                  menuItemId |-> Head(lines).menuItemId,
                  quantity |-> Head(lines).quantity,
                  price |-> Head(lines).price]),
             ctr + 1, orderId, Tail(lines))

\* the lines the handler iterates over: none when the body has no items array
SubmittedLines(body) == IF body.hasItems THEN body.items ELSE <<>>

PlaceOrder(actor, body) ==
    LET id    == orderIdCounter
        lines == SubmittedLines(body)
        os2   == createOrder(orders, id,
                     [userId |-> actor, status |-> "received",
                      totalAmount |-> body.totalAmount], now)
        ois2  == addOrderItems(orderItems, orderItemIdCounter, id, lines)
    IN  IF actor = NoActor
        THEN /\ Respond("place", actor, 0, Absent, 0, lines, Unauthorized)
             /\ UNCHANGED storeVars
        ELSE /\ orders' = os2
             /\ orderIdCounter' = id + 1
             /\ orderItems' = ois2
             /\ orderItemIdCounter' = orderItemIdCounter + Len(lines)
             /\ now' = now + 1
             \* the final getOrderWithItems throws on a missing menu item;
             \* what was written stays written
             /\ Respond("place", actor, id, Absent, 0, lines,
                    IF getOrderWithItemsThrows(ois2, menuItems, id)
                    THEN ServerError ELSE Created)
             /\ UNCHANGED <<sideVars, users, canteens, menuItems, orderRatings,
                            userIdCounter, canteenIdCounter, menuItemIdCounter,
                            orderRatingIdCounter>>

(***************************************************************************)
(* GET /api/orders/active, GET /api/orders/history                         *)
(***************************************************************************)
\* a read fails when getOrderWithItems throws on one of the orders it returns
ReadCode(actor, result) ==
    IF actor = NoActor THEN Unauthorized
    ELSE IF listThrows(orderItems, menuItems, result) THEN ServerError
    ELSE OK

GetActiveOrder(actor) ==
    LET result == getActiveOrderForUser(orders, actor)
        code   == ReadCode(actor, result)
    IN  /\ RespondWith("activeOrder", actor,
               IF code = OK THEN result ELSE <<>>, code)
        /\ UNCHANGED storeVars

GetOrderHistory(actor) ==
    LET result == getOrderHistoryForUser(orders, actor)
        code   == ReadCode(actor, result)
    IN  /\ RespondWith("orderHistory", actor,
               IF code = OK THEN result ELSE <<>>, code)
        /\ UNCHANGED storeVars

(***************************************************************************)
(* The handlers of the operations on one order.  For each, the status code *)
(* the handler answers with in the current state, then the handler.        *)
(***************************************************************************)
onlyOrdersChange ==
    UNCHANGED <<sideVars, users, canteens, menuItems, orderItems, orderRatings,
                userIdCounter, canteenIdCounter, menuItemIdCounter,
                orderIdCounter, orderItemIdCounter, orderRatingIdCounter, now>>

\* POST /api/orders/:id/complete
CompleteCode(actor, orderId) ==
    IF actor = NoActor THEN Unauthorized
    ELSE IF ~HasOrder(orders, orderId) THEN NotFound
    ELSE IF orders[orderId].userId # actor THEN Forbidden
    ELSE OK

CompleteOrder(actor, orderId) ==
    LET code == CompleteCode(actor, orderId)
    IN  /\ Respond("complete", actor, orderId, "completed", 0, <<>>, code)
        /\ IF code = OK
           THEN /\ orders' = updateOrderStatus(orders, orderId, "completed")
                /\ onlyOrdersChange
           ELSE UNCHANGED storeVars

\* POST /api/orders/:id/reorder
\* the first getOrderWithItems throws, before anything is written, when an
\* item of the original order references a menu item that is not stored
ReorderCode(actor, orderId) ==
    IF actor = NoActor THEN Unauthorized
    ELSE IF ~HasOrder(orders, orderId) THEN NotFound
    ELSE IF orders[orderId].userId # actor THEN Forbidden
    ELSE IF getOrderWithItemsThrows(orderItems, menuItems, orderId)
         THEN ServerError
    ELSE Created

\* the lines copied are the stored order items of the original order
ReorderLinesMutant(ois, mis, orderId) ==
    [k \in 1..Len(getOrderWithItems(ois, orderId)) |->
        [getOrderWithItems(ois, orderId)[k] EXCEPT
            !.price = mis[getOrderWithItems(ois, orderId)[k].menuItemId].price]]

ReorderLines(ois, mis, orderId) == getOrderWithItems(ois, orderId)

Reorder(actor, orderId) ==
    LET code  == ReorderCode(actor, orderId)
        id    == orderIdCounter
        lines == ReorderLines(orderItems, menuItems, orderId)
    IN  IF code = Created
        THEN /\ orders' = createOrder(orders, id,
                              [userId |-> actor, status |-> "received",
                               totalAmount |-> orders[orderId].totalAmount],
                              now)
             /\ orderIdCounter' = id + 1
             /\ orderItems' = addOrderItems(orderItems, orderItemIdCounter,
                                            id, lines)
             /\ orderItemIdCounter' = orderItemIdCounter + Len(lines)
             /\ now' = now + 1
             /\ Respond("reorder", actor, orderId, Absent, 0, lines, code)
             /\ UNCHANGED <<sideVars, users, canteens, menuItems, orderRatings,
                            userIdCounter, canteenIdCounter, menuItemIdCounter,
                            orderRatingIdCounter>>
        ELSE /\ Respond("reorder", actor,
                    IF code = ServerError THEN 0 ELSE orderId,
                    Absent, 0, <<>>, code)
             /\ UNCHANGED storeVars

\* POST /api/orders/:id/cancel
\* the statuses in which the handler refuses to cancel
CancelRefusedMutant(status) == status \in {"completed", "cancelled"}

CancelRefused(status) == status \in {"ready", "completed", "cancelled"}

CancelCode(actor, orderId) ==
    IF actor = NoActor THEN Unauthorized
    ELSE IF ~HasOrder(orders, orderId) THEN NotFound
    ELSE IF orders[orderId].userId # actor THEN Forbidden
    ELSE IF CancelRefused(orders[orderId].status) THEN BadRequest
    ELSE OK

CancelOrder(actor, orderId) ==
    LET code == CancelCode(actor, orderId)
    IN  /\ Respond("cancel", actor, orderId, "cancelled", 0, <<>>, code)
        /\ IF code = OK
           THEN /\ orders' = updateOrderStatus(orders, orderId, "cancelled")
                /\ onlyOrdersChange
           ELSE UNCHANGED storeVars

\* POST /api/orders/:id/rate
\* only completed orders can be rated
RateRefusedMutant(status) == status \notin {"ready", "completed"}

RateRefused(status) == status # "completed"

\* !rating || rating < 1 || rating > 5, on integers
RatingInvalidMutant(rating) == rating = 0 \/ rating > 5

RatingInvalid(rating) == rating = 0 \/ rating < 1 \/ rating > 5

\* the handler with the ownership check left out
RateCodeMutant(actor, orderId, rating) ==
    IF actor = NoActor THEN Unauthorized
    ELSE IF ~HasOrder(orders, orderId) THEN NotFound
    ELSE IF RateRefused(orders[orderId].status) THEN BadRequest
    ELSE IF RatingInvalid(rating) THEN BadRequest
    ELSE Created

RateCode(actor, orderId, rating) ==
    IF actor = NoActor THEN Unauthorized
    ELSE IF ~HasOrder(orders, orderId) THEN NotFound
    ELSE IF orders[orderId].userId # actor THEN Forbidden
    ELSE IF RateRefused(orders[orderId].status) THEN BadRequest
    ELSE IF RatingInvalid(rating) THEN BadRequest
    ELSE Created

\* comment || null: an absent or empty comment is stored as null
StoredComment(comment) == IF comment \in {Absent, ""} THEN "null" ELSE comment

RateOrder(actor, orderId, rating, comment) ==
    LET code == RateCode(actor, orderId, rating)
    IN  /\ Respond("rate", actor, orderId, Absent, rating, <<>>, code)
        /\ IF code = Created
           THEN /\ orderRatingIdCounter <= MaxRatings
                /\ orderRatings' = createOrderRating(orderRatings,
                       orderRatingIdCounter,
                       [orderId |-> orderId, userId |-> actor,
                        rating |-> rating,
                        comment |-> StoredComment(comment)])
                /\ orderRatingIdCounter' = orderRatingIdCounter + 1
                /\ UNCHANGED <<sideVars, users, canteens, menuItems, orders, orderItems,
                               userIdCounter, canteenIdCounter,
                               menuItemIdCounter, orderIdCounter,
                               orderItemIdCounter, now>>
           ELSE UNCHANGED storeVars

\* the handlers' own check of the status string of the body
StatusKnown(status) == status \in Statuses

\* POST /api/admin/orders/:id/status
AdminStatusCode(actor, orderId, status) ==
    IF isAdmin(users, actor) # Pass THEN isAdmin(users, actor)
    ELSE IF ~HasOrder(orders, orderId) THEN NotFound
    ELSE IF ~StatusKnown(status) THEN BadRequest
    ELSE OK

AdminUpdateStatus(actor, orderId, status) ==
    LET code == AdminStatusCode(actor, orderId, status)
    IN  /\ Respond("adminStatus", actor, orderId, status, 0, <<>>, code)
        /\ IF code = OK
           THEN /\ orders' = updateOrderStatus(orders, orderId, status)
                /\ onlyOrdersChange
           ELSE UNCHANGED storeVars

\* POST /api/staff/orders/:id/status
\* order.items.some(item => item.menuItem.canteenId === canteenId)
hasCanteenItems(ois, mis, orderId, canteenId) ==
    \E i \in getOrderItems(ois, orderId) :
        mis[ois[i].menuItemId].canteenId = canteenId

StaffStatusCode(actor, orderId, status) ==
    IF requireRole(users, actor, "staff") # Pass
    THEN requireRole(users, actor, "staff")
    ELSE IF ~HasOrder(orders, orderId) THEN NotFound
    ELSE IF getOrderWithItemsThrows(orderItems, menuItems, orderId)
         THEN ServerError
    ELSE IF users[actor].canteenId = NoCanteen THEN BadRequest
    ELSE IF ~hasCanteenItems(orderItems, menuItems, orderId,
                             users[actor].canteenId)
         THEN Forbidden
    ELSE IF ~StatusKnown(status) THEN BadRequest
    ELSE OK

StaffUpdateStatus(actor, orderId, status) ==
    LET code == StaffStatusCode(actor, orderId, status)
    IN  /\ Respond("staffStatus", actor,
               IF code = ServerError THEN 0 ELSE orderId,
               IF code = ServerError THEN Absent ELSE status, 0, <<>>, code)
        /\ IF code = OK
           THEN /\ orders' = updateOrderStatus(orders, orderId, status)
                /\ onlyOrdersChange
           ELSE UNCHANGED storeVars

(***************************************************************************)
(* The admin's menu item routes.                                           *)
(***************************************************************************)
onlyMenuItemsChange ==
    UNCHANGED <<sideVars, users, canteens, orders, orderItems, orderRatings,
                userIdCounter, canteenIdCounter, menuItemIdCounter,
                orderIdCounter, orderItemIdCounter, orderRatingIdCounter, now>>

\* PATCH and DELETE /api/admin/menu-items/:id answer 404 for an id that is
\* not stored
AdminMenuItemCode(actor, menuItemId, success) ==
    IF isAdmin(users, actor) # Pass THEN isAdmin(users, actor)
    ELSE IF menuItemId \notin DOMAIN menuItems THEN NotFound
    ELSE success

\* PATCH /api/admin/menu-items/:id: the body goes to updateMenuItem as it is
AdminUpdateMenuItemMutant(actor, menuItemId, data) ==
    LET code == AdminMenuItemCode(actor, menuItemId, OK)
    IN  /\ Respond("adminUpdateMenuItem", actor, menuItemId, Absent, 0, <<>>,
                   code)
        /\ IF code = OK
           THEN /\ menuItems' = updateMenuItem(menuItems, menuItemId, data)
                /\ orderItems' =
                      [i \in DOMAIN orderItems |->
                          IF orderItems[i].menuItemId = menuItemId
                          THEN [orderItems[i] EXCEPT
                                   !.price = menuItems'[menuItemId].price]
                          ELSE orderItems[i]]
                /\ UNCHANGED <<sideVars, users, canteens, orders, orderRatings,
                               userIdCounter, canteenIdCounter,
                               menuItemIdCounter, orderIdCounter,
                               orderItemIdCounter, orderRatingIdCounter, now>>
           ELSE UNCHANGED storeVars

AdminUpdateMenuItem(actor, menuItemId, data) ==
    LET code == AdminMenuItemCode(actor, menuItemId, OK)
    IN  /\ Respond("adminUpdateMenuItem", actor, menuItemId, Absent, 0, <<>>,
                   code)
        /\ IF code = OK
           THEN /\ menuItems' = updateMenuItem(menuItems, menuItemId, data)
                /\ onlyMenuItemsChange
           ELSE UNCHANGED storeVars

\* DELETE /api/admin/menu-items/:id
AdminDeleteMenuItem(actor, menuItemId) ==
    LET code == AdminMenuItemCode(actor, menuItemId, NoContent)
    IN  /\ Respond("adminDeleteMenuItem", actor, menuItemId, Absent, 0, <<>>,
                   code)
        /\ IF code = NoContent
           THEN /\ menuItems' = deleteMenuItem(menuItems, menuItemId)
                /\ onlyMenuItemsChange
           ELSE UNCHANGED storeVars

\* DELETE /api/admin/menu-items
AdminDeleteAllMenuItems(actor) ==
    LET code == IF isAdmin(users, actor) # Pass THEN isAdmin(users, actor)
                ELSE NoContent
    IN  /\ Respond("adminDeleteAllMenuItems", actor, 0, Absent, 0, <<>>, code)
        /\ IF code = NoContent
           THEN /\ menuItems' = deleteAllMenuItems(menuItems)
                /\ onlyMenuItemsChange
           ELSE UNCHANGED storeVars

onlyMenuItemsAdded ==
    UNCHANGED <<sideVars, users, canteens, orders, orderItems, orderRatings,
                userIdCounter, canteenIdCounter, orderIdCounter,
                orderItemIdCounter, orderRatingIdCounter, now>>

\* POST /api/admin/menu-items: the body, with whatever canteenId it
\* carries, goes to createMenuItem
AdminCreateMenuItem(actor, data) ==
    LET code == IF isAdmin(users, actor) # Pass THEN isAdmin(users, actor)
                ELSE Created
    IN  /\ Respond("adminCreateMenuItem", actor, menuItemIdCounter, Absent, 0,
                   <<>>, code)
        /\ IF code = Created
           THEN /\ menuItems' = createMenuItem(menuItems, menuItemIdCounter,
                                               data)
                /\ menuItemIdCounter' = menuItemIdCounter + 1
                /\ onlyMenuItemsAdded
           ELSE UNCHANGED storeVars

(***************************************************************************)
(* The admin's canteen routes.                                             *)
(***************************************************************************)
onlyCanteensChange ==
    UNCHANGED <<sideVars, users, menuItems, orders, orderItems, orderRatings,
                userIdCounter, menuItemIdCounter, orderIdCounter,
                orderItemIdCounter, orderRatingIdCounter, now>>

\* POST /api/admin/canteens
AdminCreateCanteen(actor, data) ==
    LET code == IF isAdmin(users, actor) # Pass THEN isAdmin(users, actor)
                ELSE Created
    IN  /\ Respond("adminCreateCanteen", actor, canteenIdCounter, Absent, 0,
                   <<>>, code)
        /\ IF code = Created
           THEN /\ canteens' = createCanteen(canteens, canteenIdCounter, data)
                /\ canteenIdCounter' = canteenIdCounter + 1
                /\ onlyCanteensChange
           ELSE UNCHANGED storeVars

\* PATCH and DELETE /api/admin/canteens/:id answer 404 for an id that is not
\* stored
AdminCanteenCode(actor, canteenId, success) ==
    IF isAdmin(users, actor) # Pass THEN isAdmin(users, actor)
    ELSE IF canteenId \notin DOMAIN canteens THEN NotFound
    ELSE success

\* PATCH /api/admin/canteens/:id
AdminUpdateCanteen(actor, canteenId, data) ==
    LET code == AdminCanteenCode(actor, canteenId, OK)
    IN  /\ Respond("adminUpdateCanteen", actor, canteenId, Absent, 0, <<>>,
                   code)
        /\ IF code = OK
           THEN /\ canteens' = updateCanteen(canteens, canteenId, data)
                /\ UNCHANGED canteenIdCounter
                /\ onlyCanteensChange
           ELSE UNCHANGED storeVars

\* DELETE /api/admin/canteens/:id
AdminDeleteCanteen(actor, canteenId) ==
    LET code == AdminCanteenCode(actor, canteenId, NoContent)
    IN  /\ Respond("adminDeleteCanteen", actor, canteenId, Absent, 0, <<>>,
                   code)
        /\ IF code = NoContent
           THEN /\ canteens' = deleteCanteen(canteens, canteenId)
                /\ UNCHANGED canteenIdCounter
                /\ onlyCanteensChange
           ELSE UNCHANGED storeVars

(***************************************************************************)
(* The staff routes, behind requireRole("staff").                          *)
(***************************************************************************)
\* GET /api/staff/profile: the stored user of the session; no look at the
\* canteen
StaffProfileCode(actor) ==
    IF requireRole(users, actor, "staff") # Pass
    THEN requireRole(users, actor, "staff")
    ELSE IF actor \notin DOMAIN users THEN NotFound
    ELSE OK

StaffProfile(actor) ==
    /\ Respond("staff/profile", actor, actor, Absent, 0, <<>>,
               StaffProfileCode(actor))
    /\ UNCHANGED storeVars

\* the GET routes that read by req.user.canteenId
StaffGetRoutes ==
    {"staff/canteen", "staff/menu-items", "staff/orders/active",
     "staff/orders/history", "staff/inventory", "staff/inventory/low",
     "staff/expenses", "staff/sales"}

\* if (!canteenId) return 400; /api/staff/canteen answers 404 when the
\* canteen is not stored; the two order listings load every active, or
\* every completed, order with its items before they filter by canteen
StaffGetCode(actor, route) ==
    IF requireRole(users, actor, "staff") # Pass
    THEN requireRole(users, actor, "staff")
    ELSE IF users[actor].canteenId = NoCanteen THEN BadRequest
    ELSE IF route = "staff/canteen" /\ users[actor].canteenId \notin DOMAIN canteens
         THEN NotFound
    ELSE IF \/ /\ route = "staff/orders/active"
               /\ listThrows(orderItems, menuItems, getActiveOrders(orders))
            \/ /\ route = "staff/orders/history"
               /\ listThrows(orderItems, menuItems, getOrderHistory(orders))
         THEN ServerError
    ELSE OK

StaffGet(actor, route) ==
    /\ Respond(route, actor, users[actor].canteenId, Absent, 0, <<>>,
               StaffGetCode(actor, route))
    /\ UNCHANGED storeVars

\* POST /api/staff/menu-items: the body with canteenId set to the staff
\* member's canteen
StaffCreateMenuItemCode(actor) ==
    IF requireRole(users, actor, "staff") # Pass
    THEN requireRole(users, actor, "staff")
    ELSE IF users[actor].canteenId = NoCanteen THEN BadRequest
    ELSE Created

StaffCreateMenuItem(actor, data) ==
    LET code == StaffCreateMenuItemCode(actor)
    IN  /\ Respond("staff/createMenuItem", actor, menuItemIdCounter, Absent, 0,
                   <<>>, code)
        /\ IF code = Created
           THEN /\ menuItems' = createMenuItem(menuItems, menuItemIdCounter,
                      Spread(data, [canteenId |-> users[actor].canteenId]))
                /\ menuItemIdCounter' = menuItemIdCounter + 1
                /\ onlyMenuItemsAdded
           ELSE UNCHANGED storeVars

(***************************************************************************)
(* The menu item routes under /api/canteens/:id, which have no middleware  *)
(* and never look at the session.                                          *)
(***************************************************************************)
\* POST /api/canteens/:id/menu-items
CanteenCreateMenuItem(actor, canteenId, data) ==
    LET code == IF canteenId \notin DOMAIN canteens THEN NotFound ELSE Created
    IN  /\ Respond("canteen/createMenuItem", actor, menuItemIdCounter, Absent,
                   0, <<>>, code)
        /\ IF code = Created
           THEN /\ menuItems' = createMenuItem(menuItems, menuItemIdCounter,
                      Spread(data, [canteenId |-> canteenId]))
                /\ menuItemIdCounter' = menuItemIdCounter + 1
                /\ onlyMenuItemsAdded
           ELSE UNCHANGED storeVars

\* PATCH and DELETE answer 404 unless the canteen is stored and the menu
\* item is stored with that canteenId
CanteenMenuItemCode(canteenId, itemId, success) ==
    IF canteenId \notin DOMAIN canteens THEN NotFound
    ELSE IF \/ itemId \notin DOMAIN menuItems
            \/ menuItems[itemId].canteenId # canteenId THEN NotFound
    ELSE success

\* PATCH /api/canteens/:id/menu-items/:itemId
CanteenUpdateMenuItem(actor, canteenId, itemId, data) ==
    LET code == CanteenMenuItemCode(canteenId, itemId, OK)
    IN  /\ Respond("canteen/updateMenuItem", actor, itemId, Absent, 0, <<>>,
                   code)
        /\ IF code = OK
           THEN /\ menuItems' = updateMenuItem(menuItems, itemId, data)
                /\ onlyMenuItemsChange
           ELSE UNCHANGED storeVars

\* DELETE /api/canteens/:id/menu-items/:itemId
CanteenDeleteMenuItem(actor, canteenId, itemId) ==
    LET code == CanteenMenuItemCode(canteenId, itemId, NoContent)
    IN  /\ Respond("canteen/deleteMenuItem", actor, itemId, Absent, 0, <<>>,
                   code)
        /\ IF code = NoContent
           THEN /\ menuItems' = deleteMenuItem(menuItems, itemId)
                /\ onlyMenuItemsChange
           ELSE UNCHANGED storeVars

(***************************************************************************)
(* The order lifecycle: registration, checkout, the customer's and the     *)
(* staff's and admin's operations on orders.                               *)
(***************************************************************************)
\* the step keeps the number of orders ever created within the budget
WithinOrders(budget) == orderIdCounter' <= budget + 1

Next ==
    \/ \E body \in RegisterBodies : Register(body)
    \/ \E actor \in CheckoutActors, body \in OrderBodies :
            PlaceOrder(actor, body) /\ WithinOrders(MaxOrders)
    \/ \E actor \in Actors, orderId \in OrderIds : CompleteOrder(actor, orderId)
    \/ \E actor \in Actors, orderId \in OrderIds :
            Reorder(actor, orderId) /\ WithinOrders(MaxOrders)
    \/ \E actor \in Actors, orderId \in OrderIds : CancelOrder(actor, orderId)
    \/ \E actor \in Actors, orderId \in OrderIds, rating \in RatingInputs,
          comment \in CommentInputs :
            RateOrder(actor, orderId, rating, comment)
    \/ \E actor \in Actors, orderId \in OrderIds, status \in StatusInputs :
            AdminUpdateStatus(actor, orderId, status)
    \/ \E actor \in Actors, orderId \in OrderIds, status \in StatusInputs :
            StaffUpdateStatus(actor, orderId, status)

Spec == Init /\ [][Next]_vars

(***************************************************************************)
(* Reorders and reads against a changing menu: checkout, reorder, the      *)
(* reads of one's own orders, the admin's status updates in every status,  *)
(* and the admin's changes of a menu item that the orders reference.       *)
(***************************************************************************)
\* sessions: nobody, the admin, a registered customer
ShopActors == {NoActor} \cup (DOMAIN users \ {2, 3, 4})

ShopOrderIds == 1..MaxShopOrders

\* the checkout of two lines
ShopBodies == {body \in OrderBodies : Len(body.items) = 2}

\* the menu item of the first line, and a new price for it
ShopMenuItems == {Head(body.items).menuItemId : body \in ShopBodies}

PriceUpdates == {[price |-> Head(body.items).price + 5] : body \in ShopBodies}

NextShop ==
    \/ \E body \in RegisterBodies : Register(body)
    \/ \E actor \in ShopActors, body \in ShopBodies :
            PlaceOrder(actor, body) /\ WithinOrders(MaxShopOrders)
    \/ \E actor \in ShopActors : GetActiveOrder(actor)
    \/ \E actor \in ShopActors : GetOrderHistory(actor)
    \/ \E actor \in ShopActors, orderId \in ShopOrderIds :
            Reorder(actor, orderId) /\ WithinOrders(MaxShopOrders)
    \/ \E actor \in ShopActors, orderId \in ShopOrderIds,
          status \in StatusInputs :
            AdminUpdateStatus(actor, orderId, status)
    \/ \E actor \in ShopActors, menuItemId \in ShopMenuItems,
          data \in PriceUpdates :
            AdminUpdateMenuItem(actor, menuItemId, data)
    \/ \E actor \in ShopActors, menuItemId \in ShopMenuItems :
            AdminDeleteMenuItem(actor, menuItemId)

SpecShop == Init /\ [][NextShop]_vars

(***************************************************************************)
(* Accounts: registration with the role, isAdmin and canteenId of the      *)
(* body, the staff routes behind requireRole and admin routes behind       *)
(* isAdmin.                                                                *)
(***************************************************************************)
\* registration bodies: a customer, a staff member without a canteen, and
\* a body that asks for the role admin
AccountBodies ==
    RegisterBodies \cup
    { [username |-> "bob", role |-> "staff", isAdmin |-> FALSE,
       canteenId |-> NoCanteen],
      [username |-> "carol", role |-> "admin", isAdmin |-> FALSE,
       canteenId |-> NoCanteen] }

\* sessions: nobody, or any stored user but two of the three default staff
AccountActors == {NoActor} \cup (DOMAIN users \ {2, 4})

\* bodies of the menu item and canteen routes (the names, categories and
\* locations they carry, which no handler reads, are left out)
MenuItemBodies == { [price |-> 30] }
MenuItemUpdates == { [price |-> 45] }
CanteenBodies == { [isActive |-> TRUE] }
CanteenUpdates == { [isActive |-> FALSE] }

\* the :id of a canteen: the staff member's canteen, and the first id the
\* store assigns after construction
CanteenIds == {DefaultUsers[3].canteenId, Len(DefaultCanteens) + 1}

\* the :id of a menu item: an item of that canteen, and the first id the
\* store assigns after construction
MenuItemIds ==
    { CHOOSE m \in DOMAIN DefaultMenuItems :
          /\ DefaultMenuItems[m].canteenId = DefaultUsers[3].canteenId
          /\ \A n \in DOMAIN DefaultMenuItems :
                DefaultMenuItems[n].canteenId = DefaultUsers[3].canteenId
                    => m <= n,
      Len(DefaultMenuPrices) + 1 }

WithinCatalog ==
    /\ menuItemIdCounter' <= Len(DefaultMenuPrices) + 1 + MaxNewMenuItems
    /\ canteenIdCounter' <= Len(DefaultCanteens) + 1 + MaxNewCanteens

NextAccounts ==
    \/ \E body \in AccountBodies : Register(body)
    \/ \E actor \in AccountActors : StaffProfile(actor)
    \/ \E actor \in AccountActors, route \in StaffGetRoutes :
            StaffGet(actor, route)
    \/ \E actor \in AccountActors, data \in MenuItemBodies :
            StaffCreateMenuItem(actor, data) /\ WithinCatalog
    \/ \E actor \in AccountActors, orderId \in OrderIds,
          status \in StatusInputs :
            StaffUpdateStatus(actor, orderId, status)
    \/ \E actor \in AccountActors, menuItemId \in MenuItemIds,
          data \in MenuItemUpdates :
            AdminUpdateMenuItem(actor, menuItemId, data)
    \/ \E actor \in AccountActors, data \in CanteenBodies :
            AdminCreateCanteen(actor, data) /\ WithinCatalog

SpecAccounts == Init /\ [][NextAccounts]_vars

(***************************************************************************)
(* The catalog: every route that writes menu items or canteens, called by  *)
(* nobody, a customer, a staff member and the admin.                       *)
(***************************************************************************)
NextCatalog ==
    \/ \E body \in RegisterBodies : Register(body)
    \/ \E actor \in Actors, data \in MenuItemBodies :
            StaffCreateMenuItem(actor, data) /\ WithinCatalog
    \/ \E actor \in Actors, data \in MenuItemBodies :
            AdminCreateMenuItem(actor, data) /\ WithinCatalog
    \/ \E actor \in Actors, menuItemId \in MenuItemIds,
          data \in MenuItemUpdates :
            AdminUpdateMenuItem(actor, menuItemId, data)
    \/ \E actor \in Actors, menuItemId \in MenuItemIds :
            AdminDeleteMenuItem(actor, menuItemId)
    \/ \E actor \in Actors : AdminDeleteAllMenuItems(actor)
    \/ \E actor \in Actors, data \in CanteenBodies :
            AdminCreateCanteen(actor, data) /\ WithinCatalog
    \/ \E actor \in Actors, canteenId \in CanteenIds,
          data \in CanteenUpdates :
            AdminUpdateCanteen(actor, canteenId, data)
    \/ \E actor \in Actors, canteenId \in CanteenIds :
            AdminDeleteCanteen(actor, canteenId)
    \/ \E actor \in Actors, canteenId \in CanteenIds,
          data \in MenuItemBodies :
            CanteenCreateMenuItem(actor, canteenId, data) /\ WithinCatalog
    \/ \E actor \in Actors, canteenId \in CanteenIds,
          itemId \in MenuItemIds, data \in MenuItemUpdates :
            CanteenUpdateMenuItem(actor, canteenId, itemId, data)
    \/ \E actor \in Actors, canteenId \in CanteenIds,
          itemId \in MenuItemIds :
            CanteenDeleteMenuItem(actor, canteenId, itemId)

SpecCatalog == Init /\ [][NextCatalog]_vars

(***************************************************************************)
(* The order listings of the admin and of the staff.                       *)
(***************************************************************************)
AdminOrderRoutes == {"admin/orders/active", "admin/orders/history"}

adminListing(route) ==
    IF route = "admin/orders/active" THEN getActiveOrders(orders)
    ELSE getOrderHistory(orders)

\* GET /api/admin/orders/active, GET /api/admin/orders/history
AdminOrdersCode(actor, route) ==
    IF isAdmin(users, actor) # Pass THEN isAdmin(users, actor)
    ELSE IF listThrows(orderItems, menuItems, adminListing(route))
         THEN ServerError
    ELSE OK

AdminGetOrders(actor, route) ==
    LET code == AdminOrdersCode(actor, route)
    IN  /\ RespondWith(route, actor,
               IF code = OK THEN adminListing(route) ELSE <<>>, code)
        /\ UNCHANGED storeVars

StaffOrderRoutes == {"staff/orders/active", "staff/orders/history"}

staffListing(route, canteenId) ==
    IF route = "staff/orders/active"
    THEN getActiveOrdersByCanteen(orders, orderItems, menuItems, canteenId)
    ELSE getOrderHistoryByCanteen(orders, orderItems, menuItems, canteenId)

\* GET /api/staff/orders/active, GET /api/staff/orders/history
StaffGetOrders(actor, route) ==
    LET code == StaffGetCode(actor, route)
    IN  /\ RespondWith(route, actor,
               IF code = OK THEN staffListing(route, users[actor].canteenId)
               ELSE <<>>, code)
        /\ UNCHANGED storeVars

(***************************************************************************)
(* Orders whose menu items are deleted: checkout, the admin's deletions of *)
(* menu items, and every route that loads an order with its items.         *)
(***************************************************************************)
NextKitchen ==
    \/ \E body \in RegisterBodies : Register(body)
    \/ \E actor \in CheckoutActors, body \in ShopBodies :
            PlaceOrder(actor, body) /\ WithinOrders(MaxShopOrders)
    \/ \E actor \in Actors, menuItemId \in ShopMenuItems :
            AdminDeleteMenuItem(actor, menuItemId)
    \/ \E actor \in Actors : AdminDeleteAllMenuItems(actor)
    \/ \E actor \in Actors, orderId \in ShopOrderIds,
          status \in StatusInputs :
            AdminUpdateStatus(actor, orderId, status)
    \/ \E actor \in Actors, orderId \in ShopOrderIds,
          status \in StatusInputs :
            StaffUpdateStatus(actor, orderId, status)
    \/ \E actor \in Actors, orderId \in ShopOrderIds :
            Reorder(actor, orderId) /\ WithinOrders(MaxShopOrders)
    \/ \E actor \in Actors : GetActiveOrder(actor)
    \/ \E actor \in Actors, route \in AdminOrderRoutes :
            AdminGetOrders(actor, route)
    \/ \E actor \in Actors, route \in StaffOrderRoutes :
            StaffGetOrders(actor, route)

SpecKitchen == Init /\ [][NextKitchen]_vars

(***************************************************************************)
(* The staff's bookkeeping routes: inventory, expenses and sales reports.  *)
(***************************************************************************)
onlyBooksChange ==
    UNCHANGED <<inflight, users, canteens, menuItems, orders, orderItems,
                orderRatings, userIdCounter, canteenIdCounter,
                menuItemIdCounter, orderIdCounter, orderItemIdCounter,
                orderRatingIdCounter, now>>

\* requireRole("staff"), then if (!canteenId) return 400
StaffBooksCode(actor, done) ==
    IF requireRole(users, actor, "staff") # Pass
    THEN requireRole(users, actor, "staff")
    ELSE IF users[actor].canteenId = NoCanteen THEN BadRequest
    ELSE done

\* GET /api/staff/inventory/low
StaffGetLowStock(actor) ==
    LET code == StaffBooksCode(actor, OK)
    IN  /\ RespondWith("staff/lowStock", actor,
               IF code = OK
               THEN getLowStockItems(inventoryItems, users[actor].canteenId)
               ELSE <<>>, code)
        /\ UNCHANGED storeVars

\* POST /api/staff/inventory: { ...req.body, canteenId, updatedBy }
StaffCreateInventoryItem(actor, data) ==
    LET code == StaffBooksCode(actor, Created)
    IN  /\ Respond("staff/createInventory", actor, inventoryIdCounter, Absent,
                   0, <<>>, code)
        /\ IF code = Created
           THEN /\ inventoryItems' =
                      createInventoryItem(inventoryItems, inventoryIdCounter,
                          Spread(data, [canteenId |-> users[actor].canteenId,
                                        updatedBy |-> actor]))
                /\ inventoryIdCounter' = inventoryIdCounter + 1
                /\ UNCHANGED <<expenses, salesReports, expenseIdCounter,
                               salesReportIdCounter>>
                /\ onlyBooksChange
           ELSE UNCHANGED storeVars

\* PATCH /api/staff/inventory/:id: 404 before the canteen is looked at,
\* then 400, then 403 for an item of another canteen; the update is
\* { ...req.body, updatedBy }
StaffInventoryCode(actor, itemId) ==
    IF requireRole(users, actor, "staff") # Pass
    THEN requireRole(users, actor, "staff")
    ELSE IF itemId \notin DOMAIN inventoryItems THEN NotFound
    ELSE IF users[actor].canteenId = NoCanteen THEN BadRequest
    ELSE IF inventoryItems[itemId].canteenId # users[actor].canteenId
         THEN Forbidden
    ELSE OK

StaffUpdateInventoryItem(actor, itemId, data) ==
    LET code == StaffInventoryCode(actor, itemId)
    IN  /\ Respond("staff/updateInventory", actor, itemId, Absent, 0, <<>>,
                   code)
        /\ IF code = OK
           THEN /\ inventoryItems' =
                      updateInventoryItem(inventoryItems, itemId,
                          Spread(data, [updatedBy |-> actor]))
                /\ UNCHANGED <<expenses, salesReports, inventoryIdCounter,
                               expenseIdCounter, salesReportIdCounter>>
                /\ onlyBooksChange
           ELSE UNCHANGED storeVars

\* POST /api/staff/expenses: { ...req.body, canteenId, recordedBy }
StaffCreateExpense(actor, data) ==
    LET code == StaffBooksCode(actor, Created)
    IN  /\ Respond("staff/createExpense", actor, expenseIdCounter, Absent, 0,
                   <<>>, code)
        /\ IF code = Created
           THEN /\ expenses' =
                      createExpense(expenses, expenseIdCounter,
                          Spread(data, [canteenId |-> users[actor].canteenId,
                                        recordedBy |-> actor]))
                /\ expenseIdCounter' = expenseIdCounter + 1
                /\ UNCHANGED <<inventoryItems, salesReports,
                               inventoryIdCounter, salesReportIdCounter>>
                /\ onlyBooksChange
           ELSE UNCHANGED storeVars

\* POST /api/staff/sales: { ...req.body, canteenId, generatedBy }
StaffCreateSalesReport(actor, data) ==
    LET code == StaffBooksCode(actor, Created)
    IN  /\ Respond("staff/createSalesReport", actor, salesReportIdCounter,
                   Absent, 0, <<>>, code)
        /\ IF code = Created
           THEN /\ salesReports' =
                      createSalesReport(salesReports, salesReportIdCounter,
                          Spread(data, [canteenId |-> users[actor].canteenId,
                                        generatedBy |-> actor]))
                /\ salesReportIdCounter' = salesReportIdCounter + 1
                /\ UNCHANGED <<inventoryItems, expenses, inventoryIdCounter,
                               expenseIdCounter>>
                /\ onlyBooksChange
           ELSE UNCHANGED storeVars

\* sessions: nobody, the admin and the staff member of one canteen
BookActors == {NoActor} \cup (DOMAIN users \ {2, 4})

\* inventory bodies: a quantity equal to the reorder level, and one above
\* it in a body that names another canteen
InventoryBodies ==
    { [quantity |-> 10, reorderLevel |-> 10],
      [quantity |-> 11, reorderLevel |-> 10,
       canteenId |-> DefaultUsers[2].canteenId] }

\* updates: a quantity below the level, and another canteen
InventoryUpdates ==
    { [quantity |-> 3], [canteenId |-> DefaultUsers[2].canteenId] }

InventoryIds == 1..(MaxInventoryItems + 1)

\* expense and report bodies: one that names another canteen (the amounts
\* and descriptions, which no handler reads, are left out)
BookBodies == { [canteenId |-> DefaultUsers[2].canteenId] }

WithinBooks ==
    /\ inventoryIdCounter' <= MaxInventoryItems + 1
    /\ expenseIdCounter' <= MaxBookEntries + 1
    /\ salesReportIdCounter' <= MaxBookEntries + 1

NextBooks ==
    \/ \E actor \in BookActors : StaffGetLowStock(actor)
    \/ \E actor \in BookActors, data \in InventoryBodies :
            StaffCreateInventoryItem(actor, data) /\ WithinBooks
    \/ \E actor \in BookActors, itemId \in InventoryIds,
          data \in InventoryUpdates :
            StaffUpdateInventoryItem(actor, itemId, data)
    \/ \E actor \in BookActors, data \in BookBodies :
            StaffCreateExpense(actor, data) /\ WithinBooks
    \/ \E actor \in BookActors, data \in BookBodies :
            StaffCreateSalesReport(actor, data) /\ WithinBooks

SpecBooks == Init /\ [][NextBooks]_vars

(***************************************************************************)
(* Handlers that overlap.  IStorage is an interface of async methods and   *)
(* every handler awaits each call; a handler that awaits gives way to the  *)
(* other requests the server has accepted.  A MemStorage method reads and  *)
(* writes its maps when it is called, so a handler is split at its awaits  *)
(* into steps that each end with one storage call; the response is part of *)
(* the last step.  A handler between two steps is a task in inflight,      *)
(* with what it has read so far.                                           *)
(***************************************************************************)
Task(op, actor, target, status, seen, code, lines, done, name) ==
    [op |-> op, actor |-> actor, target |-> target, status |-> status,
     seen |-> seen, code |-> code, lines |-> lines, done |-> done,
     name |-> name]

Suspend(task) == inflight' = inflight \cup {task}

Resume(task) == inflight' = inflight \ {task}

\* the step keeps the number of handlers between two steps within the bound
WithinInflight == Cardinality(inflight') <= MaxInflight

\* what no split handler writes
raceFrame ==
    UNCHANGED <<bookVars, canteens, menuItems, orderRatings,
                canteenIdCounter, menuItemIdCounter, orderRatingIdCounter>>

\* the status of the order as storage.getOrder returned it
seenStatus(orderId) ==
    IF HasOrder(orders, orderId) THEN orders[orderId].status ELSE Absent

\* POST /api/admin/orders/:id/status, up to await storage.getOrder(orderId);
\* isAdmin answers before the handler runs
AdminUpdateStatusRead(actor, orderId, status) ==
    IF isAdmin(users, actor) # Pass
    THEN /\ Respond("adminStatus", actor, orderId, status, 0, <<>>,
                    isAdmin(users, actor))
         /\ UNCHANGED storeVars
    ELSE /\ Suspend(Task("adminStatus", actor, orderId, status,
                         seenStatus(orderId),
                         AdminStatusCode(actor, orderId, status), <<>>, 0, ""))
         /\ UNCHANGED <<users, userIdCounter, orders, orderIdCounter,
                        orderItems, orderItemIdCounter, now, last>>
         /\ raceFrame

\* the rest of the handler: the checks on the order it was given, then
\* storage.updateOrderStatus, which reads the order again and replaces its
\* status.  The mutant answers 400 when the status is no longer the one
\* the handler was given.
AdminUpdateStatusWriteMutant(task) ==
    LET code == IF task.code = OK /\ orders[task.target].status # task.seen
                THEN BadRequest ELSE task.code
    IN  /\ task \in inflight /\ task.op = "adminStatus"
        /\ Respond("adminStatus", task.actor, task.target, task.status, 0,
                   <<>>, code)
        /\ orders' = IF code = OK
                     THEN updateOrderStatus(orders, task.target, task.status)
                     ELSE orders
        /\ Resume(task)
        /\ UNCHANGED <<users, userIdCounter, orderIdCounter, orderItems,
                       orderItemIdCounter, now>>
        /\ raceFrame

AdminUpdateStatusWrite(task) ==
    /\ task \in inflight /\ task.op = "adminStatus"
    /\ Respond("adminStatus", task.actor, task.target, task.status, 0, <<>>,
               task.code)
    /\ orders' = IF task.code = OK
                 THEN updateOrderStatus(orders, task.target, task.status)
                 ELSE orders
    /\ Resume(task)
    /\ UNCHANGED <<users, userIdCounter, orderIdCounter, orderItems,
                   orderItemIdCounter, now>>
    /\ raceFrame

\* POST /api/staff/orders/:id/status, up to
\* await storage.getOrderWithItems(orderId)
StaffUpdateStatusRead(actor, orderId, status) ==
    IF requireRole(users, actor, "staff") # Pass
    THEN /\ Respond("staffStatus", actor, orderId, status, 0, <<>>,
                    requireRole(users, actor, "staff"))
         /\ UNCHANGED storeVars
    ELSE /\ Suspend(Task("staffStatus", actor, orderId, status,
                         seenStatus(orderId),
                         StaffStatusCode(actor, orderId, status), <<>>, 0, ""))
         /\ UNCHANGED <<users, userIdCounter, orders, orderIdCounter,
                        orderItems, orderItemIdCounter, now, last>>
         /\ raceFrame

\* the rest of the handler: the checks on the order and items it was given,
\* then storage.updateOrderStatus
StaffUpdateStatusWrite(task) ==
    /\ task \in inflight /\ task.op = "staffStatus"
    /\ Respond("staffStatus", task.actor,
               IF task.code = ServerError THEN 0 ELSE task.target,
               IF task.code = ServerError THEN Absent ELSE task.status,
               0, <<>>, task.code)
    /\ orders' = IF task.code = OK
                 THEN updateOrderStatus(orders, task.target, task.status)
                 ELSE orders
    /\ Resume(task)
    /\ UNCHANGED <<users, userIdCounter, orderIdCounter, orderItems,
                   orderItemIdCounter, now>>
    /\ raceFrame

\* POST /api/orders/:id/cancel, up to await storage.getOrder(orderId)
CancelOrderRead(actor, orderId) ==
    IF actor = NoActor
    THEN /\ Respond("cancel", actor, orderId, "cancelled", 0, <<>>,
                    Unauthorized)
         /\ UNCHANGED storeVars
    ELSE /\ Suspend(Task("cancel", actor, orderId, "cancelled",
                         seenStatus(orderId), CancelCode(actor, orderId),
                         <<>>, 0, ""))
         /\ UNCHANGED <<users, userIdCounter, orders, orderIdCounter,
                        orderItems, orderItemIdCounter, now, last>>
         /\ raceFrame

\* the rest of the handler: the ownership and status checks on the order it
\* was given, then storage.updateOrderStatus(orderId, "cancelled")
CancelOrderWrite(task) ==
    /\ task \in inflight /\ task.op = "cancel"
    /\ Respond("cancel", task.actor, task.target, "cancelled", 0, <<>>,
               task.code)
    /\ orders' = IF task.code = OK
                 THEN updateOrderStatus(orders, task.target, "cancelled")
                 ELSE orders
    /\ Resume(task)
    /\ UNCHANGED <<users, userIdCounter, orderIdCounter, orderItems,
                   orderItemIdCounter, now>>
    /\ raceFrame

\* POST /api/orders, up to await storage.createOrder(orderData)
PlaceOrderCreate(actor, body) ==
    IF actor = NoActor
    THEN /\ Respond("place", actor, 0, Absent, 0, SubmittedLines(body),
                    Unauthorized)
         /\ UNCHANGED storeVars
    ELSE /\ orders' = createOrder(orders, orderIdCounter,
                          [userId |-> actor, status |-> "received",
                           totalAmount |-> body.totalAmount], now)
         /\ orderIdCounter' = orderIdCounter + 1
         /\ now' = now + 1
         /\ Suspend(Task("place", actor, orderIdCounter, Absent, Absent, 0,
                         SubmittedLines(body), 0, ""))
         /\ UNCHANGED <<users, userIdCounter, orderItems, orderItemIdCounter,
                        last>>
         /\ raceFrame

\* an element of req.body.items that is null: reading item.menuItemId throws
NullLine == [null |-> TRUE]

\* one turn of the loop, up to await storage.createOrderItem(...); on a
\* null element the handler leaves through catch (err) { next(err) } and
\* what it has written stays (the response is recorded with the lines
\* that were stored).  The mutant takes the order and its items back.
PlaceOrderItemMutant(task) ==
    LET line == task.lines[task.done + 1]
    IN  /\ task \in inflight /\ task.op = "place"
        /\ task.done < Len(task.lines)
        /\ IF Has(line, "menuItemId")
           THEN /\ orderItems' = createOrderItem(orderItems,
                      orderItemIdCounter,
                      [orderId |-> task.target,
                       menuItemId |-> line.menuItemId,
                       quantity |-> line.quantity, price |-> line.price])
                /\ orderItemIdCounter' = orderItemIdCounter + 1
                /\ inflight' = (inflight \ {task})
                                 \cup {[task EXCEPT !.done = @ + 1]}
                /\ UNCHANGED <<orders, last>>
           ELSE /\ Respond("place", task.actor, task.target, Absent, 0,
                           SubSeq(task.lines, 1, task.done), ServerError)
                /\ Resume(task)
                /\ orders' = [o \in DOMAIN orders \ {task.target}
                                 |-> orders[o]]
                /\ orderItems' =
                      [i \in {j \in DOMAIN orderItems :
                                 orderItems[j].orderId # task.target}
                          |-> orderItems[i]]
                /\ UNCHANGED orderItemIdCounter
        /\ UNCHANGED <<users, userIdCounter, orderIdCounter, now>>
        /\ raceFrame

PlaceOrderItem(task) ==
    LET line == task.lines[task.done + 1]
    IN  /\ task \in inflight /\ task.op = "place"
        /\ task.done < Len(task.lines)
        /\ IF Has(line, "menuItemId")
           THEN /\ orderItems' = createOrderItem(orderItems,
                      orderItemIdCounter,
                      [orderId |-> task.target,
                       menuItemId |-> line.menuItemId,
                       quantity |-> line.quantity, price |-> line.price])
                /\ orderItemIdCounter' = orderItemIdCounter + 1
                /\ inflight' = (inflight \ {task})
                                 \cup {[task EXCEPT !.done = @ + 1]}
                /\ UNCHANGED <<orders, last>>
           ELSE /\ Respond("place", task.actor, task.target, Absent, 0,
                           SubSeq(task.lines, 1, task.done), ServerError)
                /\ Resume(task)
                /\ UNCHANGED <<orders, orderItems, orderItemIdCounter>>
        /\ UNCHANGED <<users, userIdCounter, orderIdCounter, now>>
        /\ raceFrame

\* after the loop: storage.getOrderWithItems(order.id) and the response
PlaceOrderFinish(task) ==
    /\ task \in inflight /\ task.op = "place"
    /\ task.done = Len(task.lines)
    /\ Respond("place", task.actor, task.target, Absent, 0, task.lines,
               IF getOrderWithItemsThrows(orderItems, menuItems, task.target)
               THEN ServerError ELSE Created)
    /\ Resume(task)
    /\ UNCHANGED <<users, userIdCounter, orders, orderIdCounter, orderItems,
                   orderItemIdCounter, now>>
    /\ raceFrame

\* POST /api/register, up to await hashPassword(req.body.password): the
\* username is looked up, and a taken one is answered 400
RegisterCheck(body) ==
    IF getUserByUsername(users, body.username) # {}
    THEN /\ Respond("register", NoActor, 0, Absent, 0, <<>>, BadRequest)
         /\ UNCHANGED storeVars
    ELSE /\ Suspend(Task("register", NoActor, 0, Absent, Absent, Created,
                         <<>>, 0, body.username))
         /\ UNCHANGED <<users, userIdCounter, orders, orderIdCounter,
                        orderItems, orderItemIdCounter, now, last>>
         /\ raceFrame

\* the rest of the handler, once the password is hashed:
\* storage.createUser and the response
RegisterCreate(task) ==
    /\ task \in inflight /\ task.op = "register"
    /\ users' = createUser(users, userIdCounter,
                    [username |-> task.name, role |-> Absent,
                     isAdmin |-> FALSE, canteenId |-> NoCanteen])
    /\ userIdCounter' = userIdCounter + 1
    /\ Respond("register", NoActor, userIdCounter, Absent, 0, <<>>, Created)
    /\ Resume(task)
    /\ UNCHANGED <<orders, orderIdCounter, orderItems, orderItemIdCounter,
                   now>>
    /\ raceFrame

(***************************************************************************)
(* Status updates that overlap: the admin's and the staff's status updates *)
(* and the customer's cancel, each split at its awaits, on orders that     *)
(* were placed before.                                                     *)
(***************************************************************************)
\* the statuses the overlapping updates write, and the order they name:
\* the first one placed
RaceStatuses == {"preparing", "ready"}
RaceOrderIds == {1}

\* the sessions of the overlapping updates: the admin, the staff member of
\* a canteen the order has an item of, and the customers
RaceAdmins == {u \in DOMAIN users : users[u].isAdmin}
RaceStaff == {DefaultUsers[3].id}

NextStatusRace ==
    \/ \E body \in RegisterBodies : Register(body)
    \/ \E actor \in Customers, body \in ShopBodies :
            PlaceOrder(actor, body) /\ WithinOrders(MaxOrders)
    \/ \E actor \in RaceAdmins, orderId \in RaceOrderIds,
          status \in RaceStatuses :
            AdminUpdateStatusRead(actor, orderId, status) /\ WithinInflight
    \/ \E task \in inflight : AdminUpdateStatusWrite(task)
    \/ \E actor \in RaceStaff, orderId \in RaceOrderIds :
            StaffUpdateStatusRead(actor, orderId, "ready") /\ WithinInflight
    \/ \E task \in inflight : StaffUpdateStatusWrite(task)
    \/ \E actor \in Customers, orderId \in RaceOrderIds :
            CancelOrderRead(actor, orderId) /\ WithinInflight
    \/ \E task \in inflight : CancelOrderWrite(task)

SpecStatusRace == Init /\ [][NextStatusRace]_vars

(***************************************************************************)
(* Registrations and checkouts that overlap: register split at the hash    *)
(* of the password, checkout split at every storage call, and the read of  *)
(* one's active order in between.                                          *)
(***************************************************************************)
SignupBodies ==
    RegisterBodies \cup
    { [username |-> "Alice", role |-> Absent, isAdmin |-> FALSE,
       canteenId |-> NoCanteen] }

\* checkouts of two lines: two menu items, and a menu item and a null
StepCarts ==
    { << Line(1, 2, 40), Line(25, 1, 100) >>,
      << Line(1, 2, 40), NullLine >> }

StepBodies ==
    { [totalAmount |-> t, hasItems |-> TRUE, items |-> c] :
          t \in TotalInputs, c \in StepCarts }

NextCheckout ==
    \/ \E body \in SignupBodies : RegisterCheck(body) /\ WithinInflight
    \/ \E task \in inflight : RegisterCreate(task)
    \/ \E actor \in CheckoutActors, body \in StepBodies :
            /\ PlaceOrderCreate(actor, body)
            /\ WithinOrders(MaxOrders) /\ WithinInflight
    \/ \E task \in inflight : PlaceOrderItem(task)
    \/ \E task \in inflight : PlaceOrderFinish(task)
    \/ \E actor \in CheckoutActors : GetActiveOrder(actor)

SpecCheckout == Init /\ [][NextCheckout]_vars

(***************************************************************************)
(* Properties.                                                             *)
(***************************************************************************)
TypeOK ==
    /\ \A id \in DOMAIN orders :
          /\ orders[id].id = id
          /\ orders[id].status \in Statuses
          /\ orders[id].userId \in DOMAIN users
    /\ \A i \in DOMAIN orderItems : orderItems[i].orderId \in DOMAIN orders
    /\ \A r \in DOMAIN orderRatings :
          orderRatings[r].orderId \in DOMAIN orders
    /\ DOMAIN orders = 1..(orderIdCounter - 1)
    /\ DOMAIN orderItems = 1..(orderItemIdCounter - 1)
    /\ DOMAIN orderRatings = 1..(orderRatingIdCounter - 1)

\* the edges of the transition table of the order state machine
Edges == { <<"received", "preparing">>, <<"preparing", "ready">>,
           <<"ready", "completed">>, <<"received", "cancelled">>,
           <<"preparing", "cancelled">> }

\* C1: every change of an order's status, by whatever operation, follows an
\* edge of the transition table; any other requested change is turned down
\* and leaves the status as it was.
C1_StatusChangesOnlyAlongEdges ==
    [][\A id \in DOMAIN orders :
          orders'[id].status # orders[id].status
              => <<orders[id].status, orders'[id].status>> \in Edges]_vars

\* C2: a customer's cancel is carried out only on an order that is received
\* or preparing, and then makes it cancelled; on an order of the customer
\* that is ready, completed or cancelled it is answered 400; a cancel that
\* is not carried out leaves every order as it was.
C2_CancelOnlyFromReceivedOrPreparing ==
    /\ [](\A id \in DOMAIN orders :
            orders[id].status \in {"ready", "completed", "cancelled"}
                => CancelCode(orders[id].userId, id) = BadRequest)
    /\ [][last'.op = "cancel" =>
            IF last'.code = OK
            THEN /\ last'.target \in DOMAIN orders
                 /\ orders[last'.target].status \in {"received", "preparing"}
                 /\ orders' = [orders EXCEPT
                                  ![last'.target].status = "cancelled"]
            ELSE orders' = orders]_vars

\* a cancel was answered 400 while the order was ready
C2_Witness ==
    /\ last.op = "cancel" /\ last.code = BadRequest
    /\ orders # <<>>
    /\ \A id \in DOMAIN orders : orders[id].status = "ready"

\* C3: a customer's complete (pick-up) is carried out only on an order that
\* is ready; on an order in any other status it changes nothing.
C3_CompleteOnlyFromReady ==
    [][last'.op = "complete" =>
          IF last'.code = OK
          THEN orders[last'.target].status = "ready"
          ELSE orders' = orders]_vars

\* C4: every stored rating refers to an order whose status is completed.
C4_RatingsOnlyOnCompletedOrders ==
    \A r \in DOMAIN orderRatings :
        orders[orderRatings[r].orderId].status = "completed"

\* C5: at most one rating is stored per order.
C5_AtMostOneRatingPerOrder ==
    \A id \in DOMAIN orders :
        Cardinality(getOrderRatings(orderRatings, id)) <= 1

\* C6: a rate request on an order that is not completed (received,
\* preparing, ready or cancelled) is turned down, whoever sends it and
\* whatever the rating, and a rate request that is turned down stores no
\* rating.
C6_RateRefusedUnlessCompleted ==
    /\ [](\A actor \in Actors, id \in DOMAIN orders, rating \in RatingInputs :
            orders[id].status # "completed"
                => TurnedDown(RateCode(actor, id, rating)))
    /\ [][last'.op = "rate" =>
            IF last'.code = Created
            THEN orders[last'.target].status = "completed"
            ELSE /\ orderRatings' = orderRatings
                 /\ orderRatingIdCounter' = orderRatingIdCounter]_vars

\* a rate request was answered 400 while no order was completed
C6_Witness ==
    /\ last.op = "rate" /\ last.code = BadRequest
    /\ orders # <<>>
    /\ \A id \in DOMAIN orders : orders[id].status # "completed"
    /\ orderRatings = <<>>

C8_EmptyCheckoutCreatesNoOrder ==
    [][(last'.op = "place" /\ last'.lines = <<>>)
          => (orders' = orders /\ last'.code # Created)]_vars

\* C9: a checkout with a line that references a menu item that does not
\* exist or is unavailable fails and stores no order and no order item.
C9_BadLineStoresNothing ==
    [][(/\ last'.op = "place"
        /\ \E k \in 1..Len(last'.lines) :
              \/ last'.lines[k].menuItemId \notin DOMAIN menuItems
              \/ ~menuItems[last'.lines[k].menuItemId].isAvailable)
          => (/\ orders' = orders
              /\ orderItems' = orderItems
              /\ last'.code # Created)]_vars

\* C10: a checkout answered 201 has created exactly one order, owned by
\* the actor and in status received, and exactly one order item per
\* submitted line, of that order, with the line's menuItemId, quantity and
\* price; the orders and order items stored before are as they were.
C10_CheckoutCreatesOrderAndItems ==
    [][(last'.op = "place" /\ last'.code = Created) =>
        LET t      == last'.target
            lines  == last'.lines
            newIds == DOMAIN orderItems' \ DOMAIN orderItems
            AsLine(item) == Line(item.menuItemId, item.quantity, item.price)
        IN  /\ t \notin DOMAIN orders
            /\ DOMAIN orders' = DOMAIN orders \cup {t}
            /\ \A o \in DOMAIN orders : orders'[o] = orders[o]
            /\ orders'[t].userId = last'.actor
            /\ last'.actor # NoActor
            /\ orders'[t].status = "received"
            /\ \A i \in DOMAIN orderItems : orderItems'[i] = orderItems[i]
            /\ Cardinality(newIds) = Len(lines)
            /\ \A i \in newIds : orderItems'[i].orderId = t
            /\ \A k \in 1..Len(lines) :
                  Cardinality({i \in newIds : AsLine(orderItems'[i]) = lines[k]})
                    = Cardinality({j \in 1..Len(lines) : lines[j] = lines[k]})
       ]_vars

\* the checkout of two lines, the first of quantity 2 and price 40, was
\* answered 201 and the order holds an order item with quantity 2, price 40
C10_Witness ==
    /\ last.op = "place" /\ last.code = Created
    /\ Len(last.lines) = 2
    /\ last.lines[1] = Line(1, 2, 40)
    /\ orders[last.target].status = "received"
    /\ \E i \in getOrderItems(orderItems, last.target) :
          /\ orderItems[i].menuItemId = 1
          /\ orderItems[i].quantity = 2
          /\ orderItems[i].price = 40

\* the operations a customer invokes on one order
OwnerOps == {"complete", "reorder", "cancel", "rate"}

\* C13: complete, cancel, reorder and rate sent by a logged-in actor who is
\* not the owner of the order are answered 403, and 404 when the order does
\* not exist; a request answered 403 or 404 changes nothing in the store;
\* such a request is carried out only for the owner; every stored rating
\* carries the userId of its order.
C13_OnlyTheOwnerOperatesOnAnOrder ==
    /\ [](\A actor \in Actors \ {NoActor}, id \in OrderIds :
            IF id \notin DOMAIN orders
            THEN /\ CompleteCode(actor, id) = NotFound
                 /\ CancelCode(actor, id) = NotFound
                 /\ ReorderCode(actor, id) = NotFound
                 /\ \A rating \in RatingInputs :
                        RateCode(actor, id, rating) = NotFound
            ELSE actor # orders[id].userId =>
                 /\ CompleteCode(actor, id) = Forbidden
                 /\ CancelCode(actor, id) = Forbidden
                 /\ ReorderCode(actor, id) = Forbidden
                 /\ \A rating \in RatingInputs :
                        RateCode(actor, id, rating) = Forbidden)
    /\ [](\A r \in DOMAIN orderRatings :
            orderRatings[r].userId = orders[orderRatings[r].orderId].userId)
    /\ [][last'.op \in OwnerOps =>
            IF last'.code \in {Forbidden, NotFound}
            THEN UNCHANGED storeVars
            ELSE last'.code \in {OK, Created}
                    => last'.actor = orders[last'.target].userId]_vars

\* a rate request of somebody else was answered 403 after the owner had
\* rated the order
C13_Witness ==
    /\ last.op = "rate" /\ last.code = Forbidden
    /\ \E r \in DOMAIN orderRatings :
          orderRatings[r].userId = orders[orderRatings[r].orderId].userId

\* C14: a status update by a staff member bound to a canteen, on an order
\* none of whose items has a menu item of that canteen, is answered 403; a
\* staff status update is carried out only on an order with an item of the
\* staff member's canteen, and otherwise leaves every order as it was.
C14_StaffOnlyOwnCanteenOrders ==
    /\ [](\A actor \in Actors \ {NoActor}, id \in DOMAIN orders,
             status \in StatusInputs :
            (/\ users[actor].role = "staff"
             /\ users[actor].canteenId # NoCanteen
             /\ \A i \in getOrderItems(orderItems, id) :
                    orderItems[i].menuItemId \in DOMAIN menuItems
                        => menuItems[orderItems[i].menuItemId].canteenId
                              # users[actor].canteenId)
                => StaffStatusCode(actor, id, status) = Forbidden)
    /\ [][last'.op = "staffStatus" =>
            IF last'.code = OK
            THEN hasCanteenItems(orderItems, menuItems, last'.target,
                                 users[last'.actor].canteenId)
            ELSE orders' = orders]_vars

\* C11: no step changes or removes a stored order item: its menuItemId,
\* quantity and price stay what the checkout or reorder stored, also when
\* the admin changes the price of the menu item or deletes it.
C11_OrderItemsAreSnapshots ==
    [][\A i \in DOMAIN orderItems :
          /\ i \in DOMAIN orderItems'
          /\ orderItems'[i] = orderItems[i]]_vars

\* the admin changed the price of a menu item and an order item that
\* references it still carries the price of its checkout
C11_Witness ==
    /\ last.op = "adminUpdateMenuItem" /\ last.code = OK
    /\ \E i \in DOMAIN orderItems :
          /\ orderItems[i].menuItemId = last.target
          /\ orderItems[i].price # menuItems[last.target].price

\* C12: a reorder answered 201 has created one order, owned by the actor
\* and in status received, whose items are, in order, the stored items of
\* the original order (menuItemId, quantity, price); the orders and order
\* items stored before, the original's included, are as they were; and the
\* owner's reorder is answered 201 in every status of the original whose
\* menu items are all stored.
C12_ReorderCopiesTheStoredItems ==
    /\ [](\A id \in DOMAIN orders :
            ~getOrderWithItemsThrows(orderItems, menuItems, id)
                => ReorderCode(orders[id].userId, id) = Created)
    /\ [][(last'.op = "reorder" /\ last'.code = Created) =>
            LET t == orderIdCounter
            IN  /\ DOMAIN orders' = DOMAIN orders \cup {t}
                /\ t \notin DOMAIN orders
                /\ \A o \in DOMAIN orders : orders'[o] = orders[o]
                /\ \A i \in DOMAIN orderItems : orderItems'[i] = orderItems[i]
                /\ orders'[t].status = "received"
                /\ orders'[t].userId = last'.actor
                /\ getOrderWithItems(orderItems', t)
                      = getOrderWithItems(orderItems, last'.target)
                /\ getOrderWithItems(orderItems', last'.target)
                      = getOrderWithItems(orderItems, last'.target)]_vars

\* a cancelled order was reordered after the price of one of its menu items
\* had changed, and the new order carries the price of the original
C12_Witness ==
    /\ last.op = "reorder" /\ last.code = Created
    /\ orders[last.target].status = "cancelled"
    /\ \E o \in DOMAIN orders \ {last.target}, i \in DOMAIN orderItems :
          /\ orders[o].status = "received"
          /\ orderItems[i].orderId = o
          /\ orderItems[i].menuItemId \in DOMAIN menuItems
          /\ orderItems[i].price # menuItems[orderItems[i].menuItemId].price
          /\ getOrderWithItems(orderItems, o)
                = getOrderWithItems(orderItems, last.target)

\* C18: the active-order and order-history reads answer with orders of the
\* actor only: for every stored user the two storage reads list only orders
\* whose userId is that user's, and every order in the body of a read that
\* was answered 200 is owned by the actor of the request.
C18_ReadsReturnOwnOrdersOnly ==
    /\ [](\A u \in DOMAIN users :
            /\ \A k \in 1..Len(getActiveOrderForUser(orders, u)) :
                  orders[getActiveOrderForUser(orders, u)[k]].userId = u
            /\ \A k \in 1..Len(getOrderHistoryForUser(orders, u)) :
                  orders[getOrderHistoryForUser(orders, u)[k]].userId = u)
    /\ [][(last'.op \in {"activeOrder", "orderHistory"} /\ last'.code = OK)
            => \A k \in 1..Len(last'.result) :
                  orders[last'.result[k]].userId = last'.actor]_vars

\* the history read answered with an order of the actor while a completed
\* order of somebody else was stored
C18_Witness ==
    /\ last.op = "orderHistory" /\ last.code = OK
    /\ last.result # <<>>
    /\ \E o \in DOMAIN orders :
          /\ orders[o].userId # last.actor
          /\ orders[o].status = "completed"

\* the requests of the staff routes
StaffOps == StaffGetRoutes \cup
            {"staff/profile", "staff/createMenuItem", "staffStatus"}

\* C15: a staff member whose canteenId is null is answered 400 on every
\* staff route (profile, canteen, menu items, orders, order status update,
\* inventory, expenses, sales), whatever the other arguments are, and a
\* staff request answered 400 changes nothing in the store.
C15_StaffWithoutCanteenIsRefused ==
    /\ [](\A actor \in DOMAIN users :
            (users[actor].role = "staff" /\ users[actor].canteenId = NoCanteen)
                => /\ StaffProfileCode(actor) = BadRequest
                   /\ \A route \in StaffGetRoutes :
                          StaffGetCode(actor, route) = BadRequest
                   /\ StaffCreateMenuItemCode(actor) = BadRequest
                   /\ \A id \in OrderIds, status \in StatusInputs :
                          StaffStatusCode(actor, id, status) = BadRequest)
    /\ [][(last'.op \in StaffOps /\ last'.code = BadRequest)
            => UNCHANGED storeVars]_vars

\* what the role gate is to answer for a required role
RoleGate(actor, role) ==
    IF actor = NoActor THEN Unauthorized
    ELSE IF users[actor].role # role /\ users[actor].role # "admin"
         THEN Forbidden
    ELSE Pass

\* C16: the gate of the staff routes and the gate of the admin routes
\* answer 401 without a session, 403 to an actor whose role is neither the
\* required one nor admin, and let every other actor pass; an actor with
\* role admin passes both.
C16_RoleGate ==
    \A actor \in AccountActors :
        /\ requireRole(users, actor, "staff") = RoleGate(actor, "staff")
        /\ isAdmin(users, actor) = RoleGate(actor, "admin")

\* C17: for every stored user, isAdmin is true exactly when role is admin.
C17_IsAdminAgreesWithRole ==
    \A u \in DOMAIN users : users[u].isAdmin <=> (users[u].role = "admin")

\* C19: a step that creates, changes or deletes a menu item or a canteen
\* is the request of a staff member or an admin, never of a customer or of
\* a caller without a session.
C19_CatalogReadOnlyForCustomers ==
    [][(menuItems' # menuItems \/ canteens' # canteens)
          => /\ last'.actor \in DOMAIN users
             /\ users[last'.actor].role \in {"staff", "admin"}]_vars

\* C20: the canteenId of every stored menu item is the id of a stored
\* canteen.
C20_MenuItemsReferenceCanteens ==
    \A m \in DOMAIN menuItems : menuItems[m].canteenId \in DOMAIN canteens

\* the requests that end in updateOrderStatus
StatusOps == {"complete", "cancel", "adminStatus", "staffStatus"}

C22_LowStockIsExact ==
    [][(last'.op = "staff/lowStock" /\ last'.code = OK)
          => /\ \A i \in DOMAIN inventoryItems :
                    (\E k \in DOMAIN last'.result : last'.result[k] = i)
                        <=> /\ inventoryItems[i].canteenId
                                   = users[last'.actor].canteenId
                            /\ ~ (inventoryItems[i].quantity
                                     > inventoryItems[i].reorderLevel)
             /\ \A k \in DOMAIN last'.result :
                    last'.result[k] \in DOMAIN inventoryItems
             /\ UNCHANGED storeVars]_vars

\* a low stock read that returned an item at its reorder level and left
\* out an item above its level
C22_Witness ==
    /\ last.op = "staff/lowStock" /\ last.code = OK
    /\ \E k \in DOMAIN last.result :
          inventoryItems[last.result[k]].quantity
              = inventoryItems[last.result[k]].reorderLevel
    /\ \E i \in DOMAIN inventoryItems :
          /\ inventoryItems[i].canteenId = users[last.actor].canteenId
          /\ inventoryItems[i].quantity > inventoryItems[i].reorderLevel
          /\ \A k \in DOMAIN last.result : last.result[k] # i

\* C28: every inventory item, expense and sales report carries the canteen
\* of the staff member who last wrote it.
C28_BooksStayInTheStaffsCanteen ==
    /\ \A i \in DOMAIN inventoryItems :
          inventoryItems[i].canteenId
              = users[inventoryItems[i].updatedBy].canteenId
    /\ \A e \in DOMAIN expenses :
          expenses[e].canteenId = users[expenses[e].recordedBy].canteenId
    /\ \A r \in DOMAIN salesReports :
          salesReports[r].canteenId
              = users[salesReports[r].generatedBy].canteenId

\* C29: every user created by POST /api/register, which is every stored
\* user the constructor did not create, has role customer, isAdmin false
\* and no canteen.
C29_RegisteredUsersAreCustomers ==
    \A u \in DOMAIN users \ DOMAIN DefaultUsers :
        /\ users[u].role = "customer"
        /\ users[u].isAdmin = FALSE
        /\ users[u].canteenId = NoCanteen

\* C30: the active-order read of a user answers null exactly when the user
\* has no received, preparing or ready order, and otherwise the one of the
\* user's active orders with the smallest id, also when the user has
\* several; the read changes nothing that is stored.
C30_ActiveOrderIsTheOldestActive ==
    /\ [](\A u \in DOMAIN users :
            LET found == getActiveOrderForUser(orders, u)
            IN  /\ (found = <<>>)
                      <=> ~ \E o \in DOMAIN orders :
                                /\ orders[o].userId = u
                                /\ orders[o].status
                                       \in {"received", "preparing", "ready"}
                /\ \A k \in DOMAIN found :
                      /\ k = 1
                      /\ orders[found[k]].userId = u
                      /\ orders[found[k]].status
                             \in {"received", "preparing", "ready"}
                      /\ \A o \in DOMAIN orders :
                            (/\ orders[o].userId = u
                             /\ orders[o].status
                                    \in {"received", "preparing", "ready"})
                                => found[k] <= o)
    /\ [][(last'.op = "activeOrder" /\ last'.code = OK)
            => /\ last'.result = getActiveOrderForUser(orders, last'.actor)
               /\ UNCHANGED storeVars]_vars

\* the read answered with order 1 of a user whose order 2 is active too
C30_Witness ==
    /\ last.op = "activeOrder" /\ last.code = OK
    /\ \E o \in DOMAIN orders :
          /\ last.result = <<o>>
          /\ \E p \in DOMAIN orders :
                /\ p > o
                /\ orders[p].userId = last.actor
                /\ orders[p].status \in ActiveStatuses

\* an order one of whose items names a menu item that is no longer stored
Dangling(o) ==
    \E i \in DOMAIN orderItems :
        /\ orderItems[i].orderId = o
        /\ orderItems[i].menuItemId \notin DOMAIN menuItems

\* C26: while an order has an item whose menu item was deleted, every
\* operation that loads the order with its items answers 500: the admin's
\* and the staff's listings that contain it, the owner's active-order read
\* that finds it, the owner's reorder of it and a staff member's status
\* update of it; the admin's status update of it still answers 200 and
\* stores the status.  None of these requests changes what is stored when
\* it is answered 500.
C26_DanglingOrdersFailToLoad ==
    /\ [](\A o \in DOMAIN orders : Dangling(o) =>
            /\ \A a \in DOMAIN users :
                  /\ (isAdmin(users, a) = Pass
                          /\ orders[o].status \in ActiveStatuses)
                        => AdminOrdersCode(a, "admin/orders/active")
                               = ServerError
                  /\ (isAdmin(users, a) = Pass
                          /\ orders[o].status = "completed")
                        => AdminOrdersCode(a, "admin/orders/history")
                               = ServerError
                  /\ (/\ requireRole(users, a, "staff") = Pass
                      /\ users[a].canteenId # NoCanteen
                      /\ orders[o].status \in ActiveStatuses)
                        => StaffGetCode(a, "staff/orders/active") = ServerError
                  /\ (/\ requireRole(users, a, "staff") = Pass
                      /\ users[a].canteenId # NoCanteen
                      /\ orders[o].status = "completed")
                        => StaffGetCode(a, "staff/orders/history")
                               = ServerError
                  /\ requireRole(users, a, "staff") = Pass
                        => \A status \in StatusInputs :
                              StaffStatusCode(a, o, status) = ServerError
                  /\ isAdmin(users, a) = Pass
                        => \A status \in Statuses :
                              AdminStatusCode(a, o, status) = OK
            /\ getActiveOrderForUser(orders, orders[o].userId) = <<o>>
                  => ReadCode(orders[o].userId, <<o>>) = ServerError
            /\ ReorderCode(orders[o].userId, o) = ServerError)
    /\ [][/\ (/\ last'.code = ServerError
              /\ last'.op \in {"staffStatus", "reorder", "activeOrder"}
                               \cup AdminOrderRoutes \cup StaffOrderRoutes)
                => UNCHANGED storeVars
          /\ (last'.op = "adminStatus" /\ last'.code = OK)
                => orders'[last'.target].status = last'.status]_vars

\* the admin's status update answered 200 on an order with a deleted menu
\* item, which is active and the one its owner's active-order read finds
C26_Witness ==
    /\ last.op = "adminStatus" /\ last.code = OK
    /\ Dangling(last.target)
    /\ orders[last.target].status = "ready"
    /\ getActiveOrderForUser(orders, orders[last.target].userId)
           = <<last.target>>
    /\ \E i \in DOMAIN orderItems :
          /\ orderItems[i].orderId = last.target
          /\ orderItems[i].menuItemId \in DOMAIN menuItems

\* C23: status updates of the admin that overlap on one order are last
\* writer wins.  An update that passed its checks on the order it read is
\* answered 200 when it writes, whatever was written to the order since it
\* read, and the stored status is then the one it wrote; nothing else of
\* the order changes.
C23_LastWriterWins ==
    [][\A task \in inflight :
          (task.op = "adminStatus" /\ task \notin inflight')
              => /\ last'.op = "adminStatus"
                 /\ last'.code = task.code
                 /\ task.code = OK
                       => orders' = [orders EXCEPT
                                        ![task.target].status = task.status]]_vars

\* two updates of the admin read an order while it was received; the first
\* was answered 200 and stored preparing, and the second, which still
\* holds the order as received, is about to write ready
C23_Witness ==
    /\ last.op = "adminStatus" /\ last.code = OK
    /\ last.status = "preparing"
    /\ orders[last.target].status = "preparing"
    /\ \E task \in inflight :
          /\ task.op = "adminStatus" /\ task.code = OK
          /\ task.target = last.target
          /\ task.seen = "received"
          /\ task.status = "ready"

\* C24: a checkout stores the order and then its items one storage call at
\* a time.  While a checkout is between two calls the order is stored with
\* the items written so far; each turn of the loop adds one item; and a
\* checkout that fails after k of its lines leaves the order stored with
\* exactly those k items.
C24_CheckoutIsNotAtomic ==
    /\ [](\A task \in inflight : task.op = "place" =>
            /\ HasOrder(orders, task.target)
            /\ getOrderWithItems(orderItems, task.target)
                   = SubSeq(task.lines, 1, task.done))
    /\ [][\A task \in inflight :
             (task.op = "place" /\ task \notin inflight') =>
                 IF task.done < Len(task.lines)
                    /\ [task EXCEPT !.done = @ + 1] \notin inflight'
                 THEN /\ last'.op = "place" /\ last'.code = ServerError
                      /\ HasOrder(orders', task.target)
                      /\ getOrderWithItems(orderItems', task.target)
                             = SubSeq(task.lines, 1, task.done)
                      /\ orders' = orders /\ orderItems' = orderItems
                 ELSE /\ orders' = orders
                      /\ Cardinality(DOMAIN orderItems')
                             <= Cardinality(DOMAIN orderItems) + 1]_vars

\* the read of the active order answered with an order whose checkout is
\* between two storage calls and has stored fewer items than it submitted
C24_Witness ==
    /\ last.op = "activeOrder" /\ last.code = OK
    /\ \E task \in inflight :
          /\ task.op = "place"
          /\ last.result = <<task.target>>
          /\ last.actor = task.actor
          /\ Len(getOrderWithItems(orderItems, task.target)) = 1
          /\ Len(task.lines) = 2

\* C25: a customer's cancel that is answered 200 never writes cancelled
\* over a status that is ready at the moment of the write.
C25_CancelNeverOverwritesReady ==
    [][(last'.op = "cancel" /\ last'.code = OK)
          => orders[last'.target].status # "ready"]_vars

\* C27: no two stored users have the same username up to case.
C27_UsernamesAreUnique ==
    \A u, v \in DOMAIN users :
        u # v => ToLowerCase(users[u].username) # ToLowerCase(users[v].username)

=============================================================================
